---- MODULE Spec2Model ----
(***************************************************************************)
(* goviz: dependency graph construction and enrichment (pkg/graph,         *)
(* pkg/parser) and the subcommands that drive it (cmd).                    *)
(*                                                                         *)
(* Strings are TLA+ strings; strings.Contains, strings.HasSuffix and the   *)
(* byte-wise order of sort.Strings are computed on their characters.       *)
(* Pointers to Node are indices into the heap graph.Nodes, so that two     *)
(* nodes with the same name stay two nodes.                                *)
(***************************************************************************)
EXTENDS Integers, Sequences, FiniteSets, TLC

(***************************************************************************)
(* Bounds of the explored inputs and runs.                                 *)
(***************************************************************************)
MaxRequire == 2
MaxSumLines == 3
MaxPassRuns == 3

(***************************************************************************)
(* String primitives of the Go standard library used by the code.          *)
(***************************************************************************)
Contains(s, substr) ==
  \E i \in 1..(Len(s) - Len(substr) + 1) : SubSeq(s, i, i + Len(substr) - 1) = substr

HasSuffix(s, suffix) ==
  /\ Len(s) >= Len(suffix)
  /\ SubSeq(s, Len(s) - Len(suffix) + 1, Len(s)) = suffix

\* the characters that occur in module paths and versions, in byte order
Alphabet == "+-./0123456789@ABCDEFGHIJKLMNOPQRSTUVWXYZ_abcdefghijklmnopqrstuvwxyz"

Ord(c) == CHOOSE i \in 1..Len(Alphabet) : SubSeq(Alphabet, i, i) = c

RECURSIVE StrLess(_, _)
StrLess(a, b) ==
  IF Len(b) = 0 THEN FALSE
  ELSE IF Len(a) = 0 THEN TRUE
  ELSE LET ca == Ord(SubSeq(a, 1, 1))
           cb == Ord(SubSeq(b, 1, 1))
       IN IF ca # cb THEN ca < cb
          ELSE StrLess(SubSeq(a, 2, Len(a)), SubSeq(b, 2, Len(b)))

\* sort.Strings on a slice holding the strings of S, each once
RECURSIVE SortStrings(_)
SortStrings(S) ==
  IF S = {} THEN <<>>
  ELSE LET least == CHOOSE x \in S : \A y \in S \ {x} : StrLess(x, y)
       IN <<least>> \o SortStrings(S \ {least})

\* the orders in which a range over a map with key set S may visit its keys
RECURSIVE Orders(_)
Orders(S) ==
  IF S = {} THEN {<<>>}
  ELSE UNION {{<<x>> \o rest : rest \in Orders(S \ {x})} : x \in S}

Range(seq) == {seq[i] : i \in 1..Len(seq)}

\* the sequences over S of length at most n
SeqUpTo(S, n) == UNION {[1..k -> S] : k \in 0..n}

(***************************************************************************)
(* pkg/graph: the base graph.                                              *)
(***************************************************************************)
RootVersion == "main"

\* the node created for one requirement of the manifest
RequireNode(require) ==
  [Name |-> require.Path, Version |-> require.Version,
   Direct |-> ~require.Indirect, Children |-> <<>>]

\* a builder that appends every requirement's node to root.Children
IsRootChild_All(require) == TRUE

\* a builder that appends the nodes of the indirect requirements instead
IsRootChild_Indirect(require) == require.Indirect

\* whether the requirement's node is appended to root.Children
IsRootChild(require) == ~require.Indirect

RECURSIVE AddRequires(_, _, _)
AddRequires(graph, requires, i) ==
  IF i > Len(requires) THEN graph
  ELSE LET id == Len(graph.Nodes) + 1
           node == RequireNode(requires[i])
           withNode == Append(graph.Nodes, node)
           nodes == IF IsRootChild(requires[i])
                    THEN [withNode EXCEPT ![graph.Root].Children = Append(@, id)]
                    ELSE withNode
       IN AddRequires([graph EXCEPT !.Nodes = nodes,
                                    !.AllNodes = (node.Name :> id) @@ @],
                      requires, i + 1)

BuildDependencyGraph(modFile) ==
  LET root == [Name |-> modFile.Path, Version |-> RootVersion,
               Direct |-> TRUE, Children |-> <<>>]
      graph == [Nodes |-> <<root>>, Root |-> 1,
                AllNodes |-> (root.Name :> 1),
                ModuleName |-> modFile.Path]
  IN AddRequires(graph, modFile.Require, 1)

\* a count that does not skip the root
GetDependencyCount_WithRoot(g) ==
  [direct |-> Cardinality({name \in DOMAIN g.AllNodes : g.Nodes[g.AllNodes[name]].Direct}),
   indirect |-> Cardinality({name \in DOMAIN g.AllNodes : ~g.Nodes[g.AllNodes[name]].Direct})]

GetDependencyCount(g) ==
  LET deps == {name \in DOMAIN g.AllNodes :
                 g.Nodes[g.AllNodes[name]].Name # g.Nodes[g.Root].Name}
  IN [direct |-> Cardinality({name \in deps : g.Nodes[g.AllNodes[name]].Direct}),
      indirect |-> Cardinality({name \in deps : ~g.Nodes[g.AllNodes[name]].Direct})]

(***************************************************************************)
(* pkg/parser: the lock file (go.sum) and the manifest's name lists.       *)
(***************************************************************************)
NoError == "nil"

RECURSIVE TrimLeft(_)
TrimLeft(s) ==
  IF Len(s) > 0 /\ SubSeq(s, 1, 1) = " " THEN TrimLeft(SubSeq(s, 2, Len(s))) ELSE s

RECURSIVE TrimRight(_)
TrimRight(s) ==
  IF Len(s) > 0 /\ SubSeq(s, Len(s), Len(s)) = " "
  THEN TrimRight(SubSeq(s, 1, Len(s) - 1)) ELSE s

TrimSpace(s) == TrimRight(TrimLeft(s))

\* strings.Fields: the maximal runs of non-space characters
RECURSIVE Fields(_)
Fields(s) ==
  LET t == TrimLeft(s)
  IN IF Len(t) = 0 THEN <<>>
     ELSE LET stops == {i \in 1..Len(t) : SubSeq(t, i, i) = " "}
              n == IF stops = {} THEN Len(t) + 1
                   ELSE CHOOSE i \in stops : \A j \in stops : i <= j
          IN <<SubSeq(t, 1, n - 1)>> \o Fields(SubSeq(t, n, Len(t)))

GoSumKey(modulePath, version) == modulePath \o "@" \o version

\* whether a go.sum line with this version field is recorded
KeepsLine(version) == ~HasSuffix(version, "/go.mod")

\* the body of the scanner loop for one line
ScanLine(entries, text) ==
  LET line == TrimSpace(text)
      parts == Fields(line)
  IN IF line = "" THEN entries
     ELSE IF Len(parts) < 3 THEN entries
     ELSE IF KeepsLine(parts[2])
          THEN (GoSumKey(parts[1], parts[2]) :>
                  [ModulePath |-> parts[1], Version |-> parts[2], Hash |-> parts[3]])
               @@ entries
          ELSE entries

RECURSIVE ScanLines(_, _, _)
ScanLines(entries, lines, i) ==
  IF i > Len(lines) THEN entries
  ELSE ScanLines(ScanLine(entries, lines[i]), lines, i + 1)

EmptyMap == [k \in {} |-> k]

\* a loader for which a lock file that does not exist is an error
ParseGoSum_Strict(goSum) ==
  IF goSum.status \in {"missing", "unopenable", "readerror"}
  THEN [entries |-> EmptyMap, err |-> "error reading go.sum"]
  ELSE [entries |-> ScanLines(EmptyMap, goSum.lines, 1), err |-> NoError]

\* status: what the file system answers for the path
\*   "missing"    os.Open fails, the file does not exist
\*   "unopenable" os.Open fails, the file exists (permission denied)
\*   "readerror"  os.Open succeeds, the scanner ends on a read error
\*   "ok"         os.Open succeeds, the scanner reaches the end of the file
ParseGoSum(goSum) ==
  IF goSum.status \in {"missing", "unopenable"}
  THEN [entries |-> EmptyMap, err |-> NoError]
  ELSE IF goSum.status = "readerror"
       THEN [entries |-> EmptyMap, err |-> "error reading go.sum"]
       ELSE [entries |-> ScanLines(EmptyMap, goSum.lines, 1), err |-> NoError]

\* what a caller holds of a *modfile.File that is nil
NilModFile == [Path |-> "", Require |-> <<>>]

\* status of the manifest: "absent", "unreadable", "unparsable", "ok"
ParseGoMod(goMod) ==
  IF goMod.status = "ok" THEN [modFile |-> goMod.file, err |-> NoError]
  ELSE IF goMod.status = "unparsable"
       THEN [modFile |-> NilModFile, err |-> "failed to parse go.mod file"]
       ELSE [modFile |-> NilModFile, err |-> "failed to read go.mod file"]

RECURSIVE DirectFrom(_, _)
DirectFrom(requires, i) ==
  IF i > Len(requires) THEN <<>>
  ELSE (IF ~requires[i].Indirect THEN <<requires[i].Path>> ELSE <<>>)
       \o DirectFrom(requires, i + 1)

GetDirectDependencies(modFile) == DirectFrom(modFile.Require, 1)

\* a loop whose test of the direct names is inverted
TakesEntry_Inverted(entry, directDeps, seenModules) ==
  /\ entry.ModulePath \in Range(directDeps)
  /\ entry.ModulePath \notin seenModules

\* whether the loop over the lock entries takes this entry
TakesEntry(entry, directDeps, seenModules) ==
  /\ entry.ModulePath \notin Range(directDeps)
  /\ entry.ModulePath \notin seenModules

\* order: the order in which the range over goSumEntries visits the keys
RECURSIVE TransitiveFrom(_, _, _, _, _)
TransitiveFrom(goSumEntries, directDeps, order, i, transitive) ==
  IF i > Len(order) THEN transitive
  ELSE LET entry == goSumEntries[order[i]]
           seenModules == {transitive[j].ModulePath : j \in 1..Len(transitive)}
       IN TransitiveFrom(goSumEntries, directDeps, order, i + 1,
                         IF TakesEntry(entry, directDeps, seenModules)
                         THEN Append(transitive, entry) ELSE transitive)

GetTransitiveDependencies(goSumEntries, directDeps, order) ==
  TransitiveFrom(goSumEntries, directDeps, order, 1, <<>>)

(***************************************************************************)
(* pkg/graph: enrichment.                                                  *)
(***************************************************************************)
\* the zero time.Time
ZeroTime == -1

NewEnhancedNode(id, hash) ==
  [Node |-> id, Hash |-> hash, Conflicts |-> <<>>, SecurityIssues |-> <<>>,
   License |-> "", LastUpdate |-> ZeroTime, IsOutdated |-> FALSE,
   UpdateAvailable |-> ""]

\* a wrapper that takes the hash of any lock entry of the node's path
WrapNode_AnyVersion(basicGraph, goSumEntries, name) ==
  LET id == basicGraph.AllNodes[name]
      keys == {k \in DOMAIN goSumEntries : goSumEntries[k].ModulePath = name}
  IN NewEnhancedNode(id, IF keys # {}
                         THEN goSumEntries[CHOOSE k \in keys : TRUE].Hash ELSE "")

\* the wrapper of a node of the base graph
WrapNode(basicGraph, goSumEntries, name) ==
  LET id == basicGraph.AllNodes[name]
      key == GoSumKey(name, basicGraph.Nodes[id].Version)
  IN NewEnhancedNode(id, IF key \in DOMAIN goSumEntries
                         THEN goSumEntries[key].Hash ELSE "")

\* an enricher that marks the synthesized node as direct
TransitiveNode_Direct(transDep) ==
  [Name |-> transDep.ModulePath, Version |-> transDep.Version,
   Direct |-> TRUE, Children |-> <<>>]

\* the node synthesized for a lock entry
TransitiveNode(transDep) ==
  [Name |-> transDep.ModulePath, Version |-> transDep.Version,
   Direct |-> FALSE, Children |-> <<>>]

\* an enricher that stores a synthesized node under the key of its lock entry
TransitiveKey_Versioned(transDep) == GoSumKey(transDep.ModulePath, transDep.Version)

\* the key of both maps under which a synthesized node is stored
TransitiveKey(transDep) == transDep.ModulePath

\* an enricher that synthesizes a node for every transitive entry
IsNewModule_Always(g, transDep) == TRUE

\* the `if _, exists := enhancedGraph.EnhancedNodes[...]; !exists` of the second loop
IsNewModule(g, transDep) == transDep.ModulePath \notin DOMAIN g.EnhancedNodes

RECURSIVE AddTransitive(_, _, _)
AddTransitive(g, transitiveDeps, i) ==
  IF i > Len(transitiveDeps) THEN g
  ELSE LET transDep == transitiveDeps[i]
           id == Len(g.Nodes) + 1
       IN AddTransitive(
            IF IsNewModule(g, transDep)
            THEN [g EXCEPT
                    !.Nodes = Append(@, TransitiveNode(transDep)),
                    !.EnhancedNodes =
                       (TransitiveKey(transDep) :> NewEnhancedNode(id, transDep.Hash)) @@ @,
                    !.AllNodes = (TransitiveKey(transDep) :> id) @@ @]
            ELSE g,
            transitiveDeps, i + 1)

\* the nil *EnhancedDependencyGraph
NilGraph == [Nodes |-> <<>>]

\* order: the order in which GetTransitiveDependencies visits the lock entries
BuildEnhancedDependencyGraph(modFile, goSum, order) ==
  LET basicGraph == BuildDependencyGraph(modFile)
      parsed == ParseGoSum(goSum)
      goSumEntries == parsed.entries
      enhancedGraph ==
        [Nodes |-> basicGraph.Nodes, Root |-> basicGraph.Root,
         AllNodes |-> basicGraph.AllNodes, ModuleName |-> basicGraph.ModuleName,
         EnhancedNodes |-> [name \in DOMAIN basicGraph.AllNodes |->
                              WrapNode(basicGraph, goSumEntries, name)],
         GoSumEntries |-> goSumEntries,
         Conflicts |-> <<>>, SecurityIssues |-> <<>>,
         LicensesSummary |-> EmptyMap]
      directDeps == GetDirectDependencies(modFile)
      transitiveDeps == GetTransitiveDependencies(goSumEntries, directDeps, order)
  IN IF parsed.err # NoError
     THEN [graph |-> NilGraph, err |-> "failed to parse go.sum"]
     ELSE [graph |-> AddTransitive(enhancedGraph, transitiveDeps, 1), err |-> NoError]

(***************************************************************************)
(* pkg/graph: conflict detection.                                          *)
(***************************************************************************)
\* versionMap: the versions of every module path of the lock entries
VersionMap(goSumEntries) ==
  [modulePath \in {goSumEntries[k].ModulePath : k \in DOMAIN goSumEntries} |->
     {goSumEntries[k].Version :
        k \in {x \in DOMAIN goSumEntries : goSumEntries[x].ModulePath = modulePath}}]

\* a detector that pairs every version with its successor
ConflictsOf_Adjacent(modulePath, versions) ==
  [i \in 1..(Len(versions) - 1) |->
     [ModulePath |-> modulePath,
      CurrentVersion |-> versions[i + 1],
      ConflictVersion |-> versions[i],
      Reason |-> "Multiple versions in go.sum"]]

\* the conflicts emitted for one path, versions being the sorted slice
ConflictsOf(modulePath, versions) ==
  [i \in 1..(Len(versions) - 1) |->
     [ModulePath |-> modulePath,
      CurrentVersion |-> versions[Len(versions)],
      ConflictVersion |-> versions[i],
      Reason |-> "Multiple versions in go.sum"]]

\* a detector that reports a path only when it has more than two versions
ConflictingPaths_Three(g) ==
  {modulePath \in DOMAIN VersionMap(g.GoSumEntries) :
     Cardinality(VersionMap(g.GoSumEntries)[modulePath]) > 2}

ConflictingPaths(g) ==
  {modulePath \in DOMAIN VersionMap(g.GoSumEntries) :
     Cardinality(VersionMap(g.GoSumEntries)[modulePath]) > 1}

RECURSIVE DetectFrom(_, _, _)
DetectFrom(g, order, i) ==
  IF i > Len(order) THEN g
  ELSE LET modulePath == order[i]
           conflicts == ConflictsOf(modulePath,
                                    SortStrings(VersionMap(g.GoSumEntries)[modulePath]))
       IN DetectFrom(
            [g EXCEPT !.Conflicts = @ \o conflicts,
                      !.EnhancedNodes =
                         IF modulePath \in DOMAIN @
                         THEN [@ EXCEPT ![modulePath].Conflicts = @ \o conflicts]
                         ELSE @],
            order, i + 1)

\* a detector that moves every node in conflict to the current version
DetectVersionConflicts_Upgrading(g, order) ==
  LET detected == DetectFrom(g, order, 1)
      currentOf(name) ==
        LET found == {i \in 1..Len(detected.Conflicts) :
                        detected.Conflicts[i].ModulePath = name}
        IN IF found = {} THEN ""
           ELSE detected.Conflicts[CHOOSE i \in found : TRUE].CurrentVersion
  IN [detected EXCEPT
        !.Nodes = [i \in 1..Len(g.Nodes) |->
                     IF currentOf(g.Nodes[i].Name) # ""
                     THEN [g.Nodes[i] EXCEPT !.Version = currentOf(g.Nodes[i].Name)]
                     ELSE g.Nodes[i]]]

\* order: the order in which the range over versionMap visits the paths
\* that hold more than one version
DetectVersionConflicts(g, order) == DetectFrom(g, order, 1)

(***************************************************************************)
(* pkg/graph: license classification.                                      *)
(***************************************************************************)
knownLicenses ==
  ("github.com/spf13/cobra" :> "Apache-2.0") @@
  ("github.com/spf13/pflag" :> "BSD-3-Clause") @@
  ("github.com/awalterschulze/gographviz" :> "Apache-2.0") @@
  ("github.com/inconshreveable/mousetrap" :> "Apache-2.0") @@
  ("golang.org/x/mod" :> "BSD-3-Clause") @@
  ("gopkg.in/yaml.v3" :> "Apache-2.0") @@
  ("github.com/google/licensecheck" :> "BSD-3-Clause") @@
  ("github.com/fatih/color" :> "MIT")

LicenseOf(name) ==
  IF name \in DOMAIN knownLicenses THEN knownLicenses[name]
  ELSE IF Contains(name, "golang.org/x/") THEN "BSD-3-Clause"
  ELSE IF Contains(name, "github.com/mattn/") THEN "MIT"
  ELSE "Unknown"

\* a pass that sets a count instead of incrementing it
CountOf_Zero(summary, license) == 0

\* the value of a map[string]int under a key
CountOf(summary, license) ==
  IF license \in DOMAIN summary THEN summary[license] ELSE 0

\* the names the classification loop visits
LicensedNames(g) == DOMAIN g.EnhancedNodes

AnalyzeLicenses(g) ==
  LET names == LicensedNames(g)
      found == {LicenseOf(name) : name \in names}
  IN [g EXCEPT
        !.EnhancedNodes =
           [name \in DOMAIN @ |->
              IF name \in names THEN [@[name] EXCEPT !.License = LicenseOf(name)]
              ELSE @[name]],
        !.LicensesSummary =
           [license \in DOMAIN @ \cup found |->
              CountOf(@, license)
                + Cardinality({name \in names : LicenseOf(name) = license})]]

(***************************************************************************)
(* pkg/graph: security heuristics.                                         *)
(***************************************************************************)
vulnerablePatterns ==
  ("github.com/gin-gonic/gin" :>
     [ID |-> "GHSA-example", Severity |-> "MEDIUM",
      Description |-> "Check for latest version with security fixes",
      FixedIn |-> "v1.9.1+"]) @@
  ("github.com/gorilla/websocket" :>
     [ID |-> "CVE-2023-example", Severity |-> "HIGH",
      Description |-> "WebSocket vulnerability in older versions",
      FixedIn |-> "v1.5.0+"])

insecurePatterns == <<"crypto/md5", "crypto/sha1", "net/http/httputil">>

DevVersionIssue ==
  [ID |-> "DEV-VERSION", Severity |-> "LOW",
   Description |-> "Development version detected in dependencies",
   FixedIn |-> "Use stable release version"]

OldVersionIssue ==
  [ID |-> "OLD-VERSION", Severity |-> "MEDIUM",
   Description |-> "Very old package version may have security vulnerabilities",
   FixedIn |-> "Update to latest version"]

InsecureCryptoIssue ==
  [ID |-> "INSECURE-CRYPTO", Severity |-> "HIGH",
   Description |-> "Package uses insecure cryptographic functions",
   FixedIn |-> "Use secure alternatives (SHA-256, bcrypt, etc.)"]

NoVersionIssue ==
  [ID |-> "NO-VERSION", Severity |-> "LOW",
   Description |-> "Package without proper versioning detected",
   FixedIn |-> "Use properly versioned packages"]

IsKnownVulnerable(name, version) ==
  /\ name \in DOMAIN vulnerablePatterns
  /\ \/ Contains(version, "v1.8")
     \/ Contains(version, "v1.7")
     \/ Contains(version, "v1.4")

\* a rule that takes a missing version for a development version
IsDevVersion_OrEmpty(version) ==
  \/ version = ""
  \/ Contains(version, "dev")
  \/ Contains(version, "alpha")
  \/ Contains(version, "beta")
  \/ Contains(version, "rc")
  \/ Contains(version, "snapshot")

IsDevVersion(version) ==
  \/ Contains(version, "dev")
  \/ Contains(version, "alpha")
  \/ Contains(version, "beta")
  \/ Contains(version, "rc")
  \/ Contains(version, "snapshot")

IsOldVersion(version) ==
  \/ Contains(version, "20161208")
  \/ Contains(version, "20170")
  \/ Contains(version, "20180")

IsNoVersion(version) == version = "" \/ version = "v0.0.0"

RECURSIVE InsecureFrom(_, _)
InsecureFrom(name, i) ==
  IF i > Len(insecurePatterns) THEN <<>>
  ELSE (IF Contains(name, insecurePatterns[i]) THEN <<InsecureCryptoIssue>> ELSE <<>>)
       \o InsecureFrom(name, i + 1)

\* a pass whose rules are the arms of one if / else-if chain
NodeIssues_Exclusive(name, version) ==
  IF IsKnownVulnerable(name, version) THEN <<vulnerablePatterns[name]>>
  ELSE IF IsDevVersion(version) THEN <<DevVersionIssue>>
  ELSE IF IsOldVersion(version) THEN <<OldVersionIssue>>
  ELSE IF InsecureFrom(name, 1) # <<>> THEN InsecureFrom(name, 1)
  ELSE IF IsNoVersion(version) THEN <<NoVersionIssue>>
  ELSE <<>>

\* the issues one pass appends for a node, in the order of the appends
NodeIssues(name, version) ==
  (IF IsKnownVulnerable(name, version) THEN <<vulnerablePatterns[name]>> ELSE <<>>)
  \o (IF IsDevVersion(version) THEN <<DevVersionIssue>> ELSE <<>>)
  \o (IF IsOldVersion(version) THEN <<OldVersionIssue>> ELSE <<>>)
  \o InsecureFrom(name, 1)
  \o (IF IsNoVersion(version) THEN <<NoVersionIssue>> ELSE <<>>)

VersionOf(g, name) == g.Nodes[g.EnhancedNodes[name].Node].Version

\* a pass that does not skip the root
CheckedNames_All(g) == DOMAIN g.EnhancedNodes

\* the names the loop does not skip
CheckedNames(g) == {name \in DOMAIN g.EnhancedNodes : name # g.Nodes[g.Root].Name}

\* a pass that checks the nodes that hold a license only
FlaggedNames_Classified(g) ==
  {name \in CheckedNames(g) :
     /\ NodeIssues(name, VersionOf(g, name)) # <<>>
     /\ g.EnhancedNodes[name].License # ""}

\* the checked names for which the pass appends at least one issue
FlaggedNames(g) ==
  {name \in CheckedNames(g) : NodeIssues(name, VersionOf(g, name)) # <<>>}

RECURSIVE CheckFrom(_, _, _)
CheckFrom(g, order, i) ==
  IF i > Len(order) THEN g
  ELSE LET name == order[i]
           issues == NodeIssues(name, VersionOf(g, name))
       IN CheckFrom([g EXCEPT !.EnhancedNodes[name].SecurityIssues = @ \o issues,
                              !.SecurityIssues = @ \o issues],
                    order, i + 1)

\* order: the order in which the range over EnhancedNodes visits the names
\* for which it appends an issue
CheckSecurity(g, order) == CheckFrom(g, order, 1)

(***************************************************************************)
(* pkg/graph: statistics.                                                  *)
(***************************************************************************)
\* a GetStatistics that reports no negative transitive count
GetStatistics_Clamped(g) ==
  LET count == GetDependencyCount(g)
      transitive == Cardinality(DOMAIN g.GoSumEntries) - count.direct - count.indirect
  IN [total_dependencies |-> Cardinality(DOMAIN g.AllNodes) - 1,
      direct_dependencies |-> count.direct,
      indirect_dependencies |-> count.indirect,
      transitive_dependencies |-> IF transitive < 0 THEN 0 ELSE transitive,
      version_conflicts |-> Len(g.Conflicts),
      security_issues |-> Len(g.SecurityIssues),
      unique_licenses |-> Cardinality(DOMAIN g.LicensesSummary),
      licenses_breakdown |-> g.LicensesSummary]

GetStatistics(g) ==
  LET count == GetDependencyCount(g)
  IN [total_dependencies |-> Cardinality(DOMAIN g.AllNodes) - 1,
      direct_dependencies |-> count.direct,
      indirect_dependencies |-> count.indirect,
      transitive_dependencies |->
         Cardinality(DOMAIN g.GoSumEntries) - count.direct - count.indirect,
      version_conflicts |-> Len(g.Conflicts),
      security_issues |-> Len(g.SecurityIssues),
      unique_licenses |-> Cardinality(DOMAIN g.LicensesSummary),
      licenses_breakdown |-> g.LicensesSummary]

\* a GetStatistics that resets the histogram once it has reported it
AfterGetStatistics_Resetting(g) == [g EXCEPT !.LicensesSummary = EmptyMap]

\* the receiver after GetStatistics has returned: the method reads the
\* lengths of its fields and assigns to none of them
AfterGetStatistics(g) == g

(***************************************************************************)
(* pkg/output: the tree adapter.                                           *)
(***************************************************************************)
\* sort.Slice by Name on a slice of nodes: the orders it may leave the
\* slice in (it is not stable, nodes of equal names may end in any order)
SortedByName(g, nodes) ==
  {sorted \in Orders(Range(nodes)) :
     \A i \in 1..(Len(sorted) - 1) :
        ~StrLess(g.Nodes[sorted[i + 1]].Name, g.Nodes[sorted[i]].Name)}

\* the graph after GenerateASCIITree: directDeps is the slice that
\* GetDirectDependencies returned, which is root.Children itself, as the
\* sort left it
GenerateASCIITree(g, directDeps) ==
  IF Len(g.Nodes[g.Root].Children) = 0 THEN g
  ELSE [g EXCEPT !.Nodes[g.Root].Children = directDeps]

\* whether the report of the subcommand is the tree adapter's
UsesASCIITree(c, fmt) == c = "generate" /\ fmt \in {"tree", "ascii"}

(***************************************************************************)
(* cmd: package health (doctor).                                           *)
(***************************************************************************)
wellKnownPackages ==
  {"github.com/spf13/cobra", "github.com/spf13/pflag", "golang.org/x/mod",
   "github.com/fatih/color", "gopkg.in/yaml.v3"}

\* LastUpdate is held as the number of months it lies before now
HealthOf(name, version) ==
  IF name \in wellKnownPackages THEN [LastUpdate |-> 1, IsOutdated |-> FALSE]
  ELSE IF Contains(version, "v1.") \/ Contains(version, "v2.")
       THEN [LastUpdate |-> 2, IsOutdated |-> FALSE]
  ELSE IF Contains(version, "v0.")
       THEN [LastUpdate |-> 4, IsOutdated |-> TRUE]
  ELSE [LastUpdate |-> 3, IsOutdated |-> FALSE]

analyzePackageHealth(g) ==
  [g EXCEPT !.EnhancedNodes =
     [name \in DOMAIN @ |->
        IF name \in CheckedNames(g)
        THEN [@[name] EXCEPT
                !.LastUpdate = HealthOf(name, VersionOf(g, name)).LastUpdate,
                !.IsOutdated = HealthOf(name, VersionOf(g, name)).IsOutdated]
        ELSE @[name]]]

\* int(now.Sub(LastUpdate).Hours() / 24): the least and the greatest number
\* of days a date that many months back can lie before now (the lengths of
\* the months differ); the zero time lies more than a year back
DaysSince(lastUpdate) ==
  IF lastUpdate = ZeroTime THEN [least |-> 106751, greatest |-> 106751]
  ELSE IF lastUpdate = 1 THEN [least |-> 27, greatest |-> 31]
  ELSE IF lastUpdate = 2 THEN [least |-> 58, greatest |-> 62]
  ELSE IF lastUpdate = 3 THEN [least |-> 88, greatest |-> 92]
  ELSE [least |-> 119, greatest |-> 123]

\* the assignments of a number of days to every node the report visits
DaysSinceUpdate(g) ==
  {[name \in CheckedNames(g) |->
      IF name \in late THEN DaysSince(g.EnhancedNodes[name].LastUpdate).greatest
      ELSE DaysSince(g.EnhancedNodes[name].LastUpdate).least] :
     late \in SUBSET CheckedNames(g)}

\* the three counters of generateHealthReport
HealthCounts(g, days) ==
  [wellMaintained |-> Cardinality({name \in CheckedNames(g) : days[name] < 90}),
   outdated |-> Cardinality({name \in CheckedNames(g) :
                               days[name] >= 90 /\ days[name] < 365}),
   stale |-> Cardinality({name \in CheckedNames(g) : days[name] >= 365})]

\* the band of healthScore = (wellMaintained*100 + outdated*50) / (total*100) * 100;
\* with total = 0 the score is NaN, which fails both comparisons
HealthBand(counts) ==
  LET total == counts.wellMaintained + counts.outdated + counts.stale
      points == counts.wellMaintained * 100 + counts.outdated * 50
  IN IF total > 0 /\ points >= 80 * total THEN "Excellent"
     ELSE IF total > 0 /\ points >= 60 * total THEN "Good"
     ELSE "Needs Attention"

\* what generateHealthReport returns
HealthReportError(counts) == NoError

(***************************************************************************)
(* cmd: the subcommands.  Every RunE runs the same prologue (stat the      *)
(* manifest, parse it, enrich) and then its own passes and its report.     *)
(***************************************************************************)
Subcommands == {"generate", "analyze", "licenses", "security", "doctor"}

Passes == {"DetectVersionConflicts", "AnalyzeLicenses", "CheckSecurity",
           "analyzePackageHealth"}

\* a generate and an analyze that check security before they detect conflicts
Pipeline_SecurityFirst(c) ==
  IF c \in {"generate", "analyze"}
  THEN <<"CheckSecurity", "AnalyzeLicenses", "DetectVersionConflicts", "report">>
  ELSE IF c = "licenses" THEN <<"AnalyzeLicenses", "report">>
  ELSE IF c = "security" THEN <<"CheckSecurity", "report">>
  ELSE <<"analyzePackageHealth", "report">>

\* the calls a RunE makes once enrichment has succeeded, in order
Pipeline(c) ==
  IF c \in {"generate", "analyze"}
  THEN <<"DetectVersionConflicts", "AnalyzeLicenses", "CheckSecurity", "report">>
  ELSE IF c = "licenses" THEN <<"AnalyzeLicenses", "report">>
  ELSE IF c = "security" THEN <<"CheckSecurity", "report">>
  ELSE <<"analyzePackageHealth", "report">>

StepAfter(c, step) ==
  LET i == CHOOSE k \in 1..Len(Pipeline(c)) : Pipeline(c)[k] = step
  IN IF i = Len(Pipeline(c)) THEN "done" ELSE Pipeline(c)[i + 1]

\* a RunE that goes on after a failed ParseGoMod
ParseFailed_Never(parseErr) == FALSE

\* the `if err != nil { return ... }` after the call of ParseGoMod
ParseFailed(parseErr) == parseErr # NoError

\* whether os.Stat on the manifest makes RunE return
ManifestNotFound(goMod) == goMod.status = "absent"

\* what the report step of a subcommand produces: where the report goes
\* ("stdout", "file", "none") and the error RunE returns
ReportOf(c, fmt, outFile) ==
  IF c = "generate"
  THEN IF fmt \in {"dot", "png", "svg"} THEN [output |-> "file", err |-> NoError]
       ELSE IF fmt \in {"json", "yaml"}
            THEN [output |-> IF outFile = "" THEN "stdout" ELSE "file", err |-> NoError]
       ELSE IF fmt \in {"tree", "ascii"} THEN [output |-> "stdout", err |-> NoError]
       ELSE [output |-> "none", err |-> "unsupported format"]
  ELSE IF c = "analyze"
  THEN IF fmt \in {"json", "yaml"}
       THEN [output |-> IF outFile = "" THEN "stdout" ELSE "file", err |-> NoError]
       ELSE IF fmt \in {"text", "console"} THEN [output |-> "stdout", err |-> NoError]
       ELSE [output |-> "none", err |-> "unsupported format"]
  ELSE [output |-> "stdout", err |-> NoError]

\* a report that ends the process with os.Exit(1) on any issue
SecurityScanFails_AnyIssue(g) == Len(g.SecurityIssues) > 0

\* generateSecurityReport ends the process with os.Exit(1)
SecurityScanFails(g) ==
  \E i \in 1..Len(g.SecurityIssues) :
     g.SecurityIssues[i].Severity \in {"CRITICAL", "HIGH"}

(***************************************************************************)
(* State.                                                                  *)
(***************************************************************************)
VARIABLES
  cmd,         \* the subcommand being run, or "library" for a direct caller of pkg/graph
  format,      \* the --format flag
  outputFile,  \* the --output flag
  goMod,       \* the manifest on disk: [status, file]
  goSum,       \* the lock file on disk: [status, lines]
  pc,          \* the next call of the run, or "enriched", "done", "failed"
  modFile,     \* the parsed manifest held by the caller
  basicGraph,  \* the base graph as BuildDependencyGraph returned it
  graph,       \* the enriched graph
  err,         \* the error of the run
  runs,        \* how often each pass and GetStatistics has been called
  stats,       \* the map the last GetStatistics returned
  output,      \* where a report has been produced
  exitCode     \* the exit status of the process, -1 while it runs

vars == <<cmd, format, outputFile, goMod, goSum, pc, modFile, basicGraph, graph,
          err, runs, stats, output, exitCode>>

Calls == Passes \cup {"GetStatistics"}

TotalRuns ==
  runs["DetectVersionConflicts"] + runs["AnalyzeLicenses"] + runs["CheckSecurity"]
    + runs["analyzePackageHealth"] + runs["GetStatistics"]

(***************************************************************************)
(* Inputs.                                                                 *)
(***************************************************************************)
ModulePath == "example.com/app"

Req(path, version, indirect) == [Path |-> path, Version |-> version, Indirect |-> indirect]

\* the manifests of a module: up to MaxRequire of the requirements, in any
\* order, no require line written twice (a path may be declared twice, at
\* two versions)
ManifestsOf(path, requires) ==
  {[Path |-> path, Require |-> r] :
     r \in {q \in SeqUpTo(requires, MaxRequire) :
              \A i, j \in 1..Len(q) : q[i] = q[j] => i = j}}

Manifests(requires) == ManifestsOf(ModulePath, requires)

RECURSIVE Pick(_, _, _)
Pick(lines, I, i) ==
  IF i > Len(lines) THEN <<>>
  ELSE (IF i \in I THEN <<lines[i]>> ELSE <<>>) \o Pick(lines, I, i + 1)

\* the lock files: a go.sum as the go command writes it holds its lines in
\* sorted order, each once; lines is the sorted sequence the files draw from
GoSumFiles(lines) ==
  {[status |-> "ok", lines |-> Pick(lines, I, 1)] :
     I \in {J \in SUBSET (1..Len(lines)) : Cardinality(J) <= MaxSumLines}}
    \cup {[status |-> st, lines |-> <<>>] : st \in {"missing", "unopenable", "readerror"}}

\* the manifest and lock entries of the end-to-end scenario, a second
\* declaration of moduleA, and further versions of the lock-only moduleC
CoreRequires ==
  {Req("moduleA", "v1.2.0", FALSE), Req("moduleB", "v0.3.0", TRUE),
   Req("moduleA", "v1.0.0", TRUE)}

CoreLines ==
  <<"moduleA v1.2.0 h1:a12", "moduleB v0.3.0 h1:b03", " moduleC  v0.3.0  h1:c03 ",
    "moduleC v1.0.0 h1:c10", "moduleC v1.0.0/go.mod h1:m10", "moduleC v1.2.0 h1:c12">>

\* a direct caller of pkg/graph holds a parsed manifest and a lock file path
InitLibraryOf(path, requires, lines) ==
  /\ cmd = "library"
  /\ format = ""
  /\ outputFile = ""
  /\ goMod \in {[status |-> "ok", file |-> m] : m \in ManifestsOf(path, requires)}
  /\ goSum \in GoSumFiles(lines)
  /\ pc = "BuildEnhancedDependencyGraph"
  /\ modFile = goMod.file
  /\ basicGraph = NilGraph
  /\ graph = NilGraph
  /\ err = NoError
  /\ runs = [c \in Calls |-> 0]
  /\ stats = EmptyMap
  /\ output = "none"
  /\ exitCode = -1

InitLibrary(requires, lines) == InitLibraryOf(ModulePath, requires, lines)

Init == InitLibrary(CoreRequires, CoreLines)

(***************************************************************************)
(* Actions.                                                                *)
(***************************************************************************)
Library == cmd = "library"

\* a pass may be called: by a library caller at any time after enrichment,
\* by a subcommand when its RunE has reached the call
CanCall(call) ==
  IF Library THEN pc = "enriched" /\ TotalRuns < MaxPassRuns ELSE pc = call

Called(call) ==
  /\ runs' = [runs EXCEPT ![call] = @ + 1]
  /\ pc' = IF Library THEN pc ELSE StepAfter(cmd, call)

Fail(e) ==
  /\ pc' = "failed"
  /\ err' = e
  /\ exitCode' = IF Library THEN exitCode ELSE 1

StatStep ==
  /\ pc = "stat"
  /\ IF ManifestNotFound(goMod)
     THEN Fail("go.mod file not found")
     ELSE pc' = "ParseGoMod" /\ UNCHANGED <<err, exitCode>>
  /\ UNCHANGED <<cmd, format, outputFile, goMod, goSum, modFile, basicGraph, graph,
                 runs, stats, output>>

ParseStep ==
  /\ pc = "ParseGoMod"
  /\ LET parsed == ParseGoMod(goMod)
     IN IF ParseFailed(parsed.err)
        THEN Fail("failed to parse go.mod") /\ UNCHANGED modFile
        ELSE /\ pc' = "BuildEnhancedDependencyGraph"
             /\ modFile' = parsed.modFile
             /\ UNCHANGED <<err, exitCode>>
  /\ UNCHANGED <<cmd, format, outputFile, goMod, goSum, basicGraph, graph,
                 runs, stats, output>>

Enrich ==
  /\ pc = "BuildEnhancedDependencyGraph"
  /\ \E order \in Orders(DOMAIN ParseGoSum(goSum).entries) :
       LET built == BuildEnhancedDependencyGraph(modFile, goSum, order)
       IN /\ basicGraph' = BuildDependencyGraph(modFile)
          /\ graph' = built.graph
          /\ IF built.err # NoError
             THEN Fail(IF Library THEN built.err
                       ELSE "failed to build enhanced dependency graph")
             ELSE /\ pc' = IF Library THEN "enriched" ELSE Pipeline(cmd)[1]
                  /\ UNCHANGED <<err, exitCode>>
  /\ UNCHANGED <<cmd, format, outputFile, goMod, goSum, modFile, runs, stats, output>>

DetectVersionConflictsCall ==
  /\ CanCall("DetectVersionConflicts")
  /\ \E order \in Orders(ConflictingPaths(graph)) :
       graph' = DetectVersionConflicts(graph, order)
  /\ Called("DetectVersionConflicts")
  /\ UNCHANGED <<cmd, format, outputFile, goMod, goSum, modFile, basicGraph,
                 err, stats, output, exitCode>>

AnalyzeLicensesCall ==
  /\ CanCall("AnalyzeLicenses")
  /\ graph' = AnalyzeLicenses(graph)
  /\ Called("AnalyzeLicenses")
  /\ UNCHANGED <<cmd, format, outputFile, goMod, goSum, modFile, basicGraph,
                 err, stats, output, exitCode>>

CheckSecurityCall ==
  /\ CanCall("CheckSecurity")
  /\ \E order \in Orders(FlaggedNames(graph)) :
       graph' = CheckSecurity(graph, order)
  /\ Called("CheckSecurity")
  /\ UNCHANGED <<cmd, format, outputFile, goMod, goSum, modFile, basicGraph,
                 err, stats, output, exitCode>>

GetStatisticsCall ==
  /\ Library
  /\ CanCall("GetStatistics")
  /\ stats' = GetStatistics(graph)
  /\ graph' = AfterGetStatistics(graph)
  /\ Called("GetStatistics")
  /\ UNCHANGED <<cmd, format, outputFile, goMod, goSum, modFile, basicGraph,
                 err, output, exitCode>>

HealthStep ==
  /\ ~Library
  /\ CanCall("analyzePackageHealth")
  /\ graph' = analyzePackageHealth(graph)
  /\ Called("analyzePackageHealth")
  /\ UNCHANGED <<cmd, format, outputFile, goMod, goSum, modFile, basicGraph,
                 err, stats, output, exitCode>>

ReportStep ==
  /\ ~Library
  /\ pc = "report"
  /\ \E days \in IF cmd = "doctor" THEN DaysSinceUpdate(graph) ELSE {EmptyMap} :
     LET report == IF cmd = "doctor"
                   THEN [output |-> "stdout",
                         err |-> HealthReportError(HealthCounts(graph, days))]
                   ELSE ReportOf(cmd, format, outputFile)
     IN /\ output' = report.output
        /\ err' = report.err
        /\ pc' = IF report.err = NoError THEN "done" ELSE "failed"
        /\ exitCode' = IF report.err # NoError THEN 1
                       ELSE IF cmd = "security" /\ SecurityScanFails(graph) THEN 1
                       ELSE 0
        /\ stats' = IF report.output # "none" /\ cmd \in {"generate", "analyze"}
                       /\ format \in {"json", "yaml", "text", "console"}
                    THEN GetStatistics(graph) ELSE stats
  /\ \E directDeps \in SortedByName(graph, graph.Nodes[graph.Root].Children) :
       graph' = IF UsesASCIITree(cmd, format)
                THEN GenerateASCIITree(graph, directDeps) ELSE graph
  /\ UNCHANGED <<cmd, format, outputFile, goMod, goSum, modFile, basicGraph, runs>>

Next ==
  \/ Enrich
  \/ DetectVersionConflictsCall
  \/ AnalyzeLicensesCall
  \/ CheckSecurityCall
  \/ GetStatisticsCall

Spec == Init /\ [][Next]_vars

\* module paths and versions on which the license table, the license prefix
\* rules and the security rules fire, alone and together
RuleRequires ==
  {Req("github.com/gin-gonic/gin", "v1.8.0-rc1.0.20170101000000-abcdefabcdef", FALSE),
   Req("golang.org/x/crypto/md5/crypto/sha1", "", TRUE),
   Req("golang.org/x/crypto/md5/crypto/sha1", "v0.0.0", TRUE),
   Req("github.com/spf13/cobra", "v1.2.0", FALSE)}

RuleLines ==
  <<"example.com/golang.org/x/fork v1.0.0 h1:f10", "example.com/golang.org/x/fork v1.0.0",
    "github.com/mattn/go-isatty v0.0.20 h1:i20">>

InitRules == InitLibrary(RuleRequires, RuleLines)

SpecRules == InitRules /\ [][Next]_vars

\* a manifest that requires the path of its own module, and a lock file
\* that holds an entry for it
SelfRequires == {Req(ModulePath, "v1.0.0", FALSE), Req("moduleA", "v1.2.0", FALSE)}

SelfLines == <<"example.com/app v1.0.0 h1:s10", "moduleC v1.0.0 h1:c10">>

InitSelf == InitLibrary(SelfRequires, SelfLines)

SpecSelf == InitSelf /\ [][Next]_vars

\* a module whose own path matches an insecure-primitive pattern, with
\* requirements and a lock-only module on which the security rules fire
RootRequires ==
  {Req("github.com/gorilla/websocket", "v1.4.2", FALSE), Req("moduleB", "v0.0.0", TRUE)}

RootLines == <<"moduleC v0.3.0-beta h1:c03">>

InitRoot == InitLibraryOf("example.com/crypto/md5", RootRequires, RootLines)

SpecRoot == InitRoot /\ [][Next]_vars

\* requirements and lock entries on which all three passes leave an
\* annotation: versions in conflict, a license of the table, and security rules
MixedRequires ==
  {Req("github.com/gorilla/websocket", "v1.4.2", FALSE),
   Req("golang.org/x/mod", "v0.0.0", TRUE)}

MixedLines ==
  <<"github.com/gorilla/websocket v1.4.2 h1:w14",
    "github.com/gorilla/websocket v1.5.0 h1:w15",
    "moduleC v1.0.0 h1:c10", "moduleC v1.2.0-rc1 h1:c12">>

InitMixed == InitLibrary(MixedRequires, MixedLines)

SpecMixed == InitMixed /\ [][Next]_vars

\* two direct requirements declared against the order of their names, a
\* second, indirect declaration of one of them, and lock entries for a
\* declared module and for a lock-only one
DeclRequires ==
  {Req("moduleB", "v0.3.0", FALSE), Req("moduleA", "v1.2.0", FALSE),
   Req("moduleA", "v1.0.0", TRUE)}

DeclLines == <<"moduleA v1.2.0 h1:a12", "moduleC v1.0.0 h1:c10", "moduleC v1.2.0 h1:c12">>

InitDecl == InitLibrary(DeclRequires, DeclLines)

SpecDecl == InitDecl /\ [][Next]_vars

\* the subcommands, run on a project directory
CmdRequires ==
  {Req("moduleA", "v1.2.0", FALSE), Req("github.com/gorilla/websocket", "v1.4.2", FALSE),
   Req("moduleB", "v0.3.0-rc1", TRUE)}

CmdLines == <<"moduleC v1.0.0 h1:c10", "moduleC v1.2.0 h1:c12">>

Formats == {"text", "tree", "json", "dot", "xml"}

InitCmd ==
  /\ cmd \in Subcommands
  /\ format \in Formats
  /\ outputFile \in {"", "report.out"}
  /\ goMod \in {[status |-> "ok", file |-> m] : m \in Manifests(CmdRequires)}
               \cup {[status |-> st, file |-> NilModFile] :
                       st \in {"absent", "unreadable", "unparsable"}}
  /\ goSum \in GoSumFiles(CmdLines)
  /\ pc = "stat"
  /\ modFile = NilModFile
  /\ basicGraph = NilGraph
  /\ graph = NilGraph
  /\ err = NoError
  /\ runs = [c \in Calls |-> 0]
  /\ stats = EmptyMap
  /\ output = "none"
  /\ exitCode = -1

NextCmd ==
  \/ StatStep
  \/ ParseStep
  \/ Enrich
  \/ DetectVersionConflictsCall
  \/ AnalyzeLicensesCall
  \/ CheckSecurityCall
  \/ HealthStep
  \/ ReportStep

SpecCmd == InitCmd /\ [][NextCmd]_vars
(***************************************************************************)
(* Properties.                                                             *)
(***************************************************************************)
Enriched == pc = "enriched"

BaseBuilt == basicGraph # NilGraph

DirectCount(m) == Cardinality({i \in 1..Len(m.Require) : ~m.Require[i].Indirect})

IndirectCount(m) == Cardinality({i \in 1..Len(m.Require) : m.Require[i].Indirect})

DeclaredPaths(m) == {m.Require[i].Path : i \in 1..Len(m.Require)}

\* no path is declared twice and none is the module's own path
DistinctPaths(m) ==
  /\ \A i, j \in 1..Len(m.Require) : m.Require[i].Path = m.Require[j].Path => i = j
  /\ m.Path \notin DeclaredPaths(m)

RootChildren(g) == g.Nodes[g.Root].Children

\* C1 as stated: for every manifest with N direct and M indirect
\* requirements the base graph has N+M+1 nodes in AllNodes and N root children.
C1_Original ==
  BaseBuilt =>
    /\ Cardinality(DOMAIN basicGraph.AllNodes)
         = DirectCount(modFile) + IndirectCount(modFile) + 1
    /\ Len(RootChildren(basicGraph)) = DirectCount(modFile)

\* C1 amended: AllNodes of the base graph holds one node per distinct path
\* among the module path and the declared paths (the last declaration of a
\* path wins), which is N+M+1 nodes when the declared paths are pairwise
\* distinct and differ from the module path; root.Children has length N always.
C1_BaseGraphSize ==
  BaseBuilt =>
    /\ DOMAIN basicGraph.AllNodes = {modFile.Path} \cup DeclaredPaths(modFile)
    /\ DistinctPaths(modFile) =>
         Cardinality(DOMAIN basicGraph.AllNodes)
           = DirectCount(modFile) + IndirectCount(modFile) + 1
    /\ Len(RootChildren(basicGraph)) = DirectCount(modFile)

C1_Witness ==
  /\ BaseBuilt
  /\ DistinctPaths(modFile)
  /\ DirectCount(modFile) = 1
  /\ IndirectCount(modFile) = 1
  /\ Cardinality(DOMAIN basicGraph.AllNodes) = 3
  /\ Len(RootChildren(basicGraph)) = 1

LockPaths(g) == {g.GoSumEntries[k].ModulePath : k \in DOMAIN g.GoSumEntries}

\* the module paths that occur in the lock entries only
LockOnlyPaths(g) == LockPaths(g) \ ({modFile.Path} \cup DeclaredPaths(modFile))

\* C2: enrichment never yields fewer nodes than the base graph, and every
\* module path that occurs only in the lock entries is the name of exactly
\* one node of the enriched graph, whatever the number of its versions.
C2_LockOnlyOnce ==
  Enriched =>
    /\ Cardinality(DOMAIN graph.AllNodes) >= Cardinality(DOMAIN basicGraph.AllNodes)
    /\ \A p \in LockOnlyPaths(graph) :
         /\ Cardinality({k \in DOMAIN graph.AllNodes :
                           graph.Nodes[graph.AllNodes[k]].Name = p}) = 1
         /\ Cardinality({k \in DOMAIN graph.EnhancedNodes :
                           graph.Nodes[graph.EnhancedNodes[k].Node].Name = p}) = 1
         /\ Cardinality({i \in 1..Len(graph.Nodes) : graph.Nodes[i].Name = p}) = 1

C2_Witness ==
  /\ Enriched
  /\ \E p \in LockOnlyPaths(graph) :
       /\ Cardinality(VersionMap(graph.GoSumEntries)[p]) = 3
       /\ Cardinality({k \in DOMAIN graph.AllNodes :
                         graph.Nodes[graph.AllNodes[k]].Name = p}) = 1
  /\ Cardinality(DOMAIN graph.AllNodes) > Cardinality(DOMAIN basicGraph.AllNodes)

RECURSIVE SumOf(_)
SumOf(summary) ==
  IF DOMAIN summary = {} THEN 0
  ELSE LET k == CHOOSE x \in DOMAIN summary : TRUE
       IN summary[k] + SumOf([x \in DOMAIN summary \ {k} |-> summary[x]])

NonRootNames(g) == {name \in DOMAIN g.EnhancedNodes : name # g.Nodes[g.Root].Name}

\* C3: after exactly one AnalyzeLicenses on a freshly enriched graph every
\* non-root node has a non-empty license and the counts of LicensesSummary
\* add up to the number of non-root nodes.
C3_HistogramCoversNonRoot ==
  (Enriched /\ runs["AnalyzeLicenses"] = 1) =>
    /\ \A name \in NonRootNames(graph) : graph.EnhancedNodes[name].License # ""
    /\ SumOf(graph.LicensesSummary) = Cardinality(NonRootNames(graph))

ConflictsFor(g, p) == {i \in 1..Len(g.Conflicts) : g.Conflicts[i].ModulePath = p}

IsGreatest(v, versions) == v \in versions /\ \A w \in versions : ~StrLess(v, w)

\* C4: one run of DetectVersionConflicts yields, for every module path with
\* k >= 2 versions in the lock entries, exactly k-1 conflicts, one per
\* non-greatest version, each naming the lexicographically greatest version
\* as current, with the reason "Multiple versions in go.sum"; a path with one
\* version yields none.
C4_ConflictsPerPath ==
  (Enriched /\ runs["DetectVersionConflicts"] = 1) =>
    /\ \A i \in 1..Len(graph.Conflicts) : graph.Conflicts[i].ModulePath \in LockPaths(graph)
    /\ \A p \in LockPaths(graph) :
         LET versions == VersionMap(graph.GoSumEntries)[p]
             k == Cardinality(versions)
             found == ConflictsFor(graph, p)
         IN IF k < 2 THEN found = {}
            ELSE /\ Cardinality(found) = k - 1
                 /\ \A i \in found :
                      /\ IsGreatest(graph.Conflicts[i].CurrentVersion, versions)
                      /\ graph.Conflicts[i].Reason = "Multiple versions in go.sum"
                 /\ {graph.Conflicts[i].ConflictVersion : i \in found}
                      = {v \in versions : ~IsGreatest(v, versions)}

C4_Witness ==
  /\ Enriched
  /\ runs["DetectVersionConflicts"] = 1
  /\ "moduleC" \in LockPaths(graph)
  /\ VersionMap(graph.GoSumEntries)["moduleC"] = {"v0.3.0", "v1.0.0", "v1.2.0"}
  /\ Len(graph.Conflicts) = 2
  /\ {<<graph.Conflicts[i].CurrentVersion, graph.Conflicts[i].ConflictVersion>> :
        i \in 1..Len(graph.Conflicts)}
       = {<<"v1.2.0", "v0.3.0">>, <<"v1.2.0", "v1.0.0">>}

IssueCount(issues, id) == Cardinality({i \in 1..Len(issues) : issues[i].ID = id})

Bit(b) == IF b THEN 1 ELSE 0

PatternsIn(name) ==
  Cardinality({i \in 1..Len(insecurePatterns) : Contains(name, insecurePatterns[i])})

IssuesOf(g, name) == g.EnhancedNodes[name].SecurityIssues

NodeNamed(g, name) == g.Nodes[g.AllNodes[name]]

EndToEndInput ==
  /\ Len(modFile.Require) = 2
  /\ Range(modFile.Require)
       = {Req("moduleA", "v1.2.0", FALSE), Req("moduleB", "v0.3.0", TRUE)}
  /\ DOMAIN graph.GoSumEntries = {"moduleA@v1.2.0", "moduleB@v0.3.0", "moduleC@v1.0.0"}

\* C6: with moduleA v1.2.0 (direct) and moduleB v0.3.0 (indirect) declared
\* and the lock entries moduleA@v1.2.0, moduleB@v0.3.0, moduleC@v1.0.0, the
\* enriched graph has the 4 nodes root, A, B, C, C is synthesized with
\* direct=false, and GetStatistics reports 3 dependencies, 1 direct, 2 indirect.
C6_EndToEnd ==
  (Enriched /\ EndToEndInput) =>
    /\ DOMAIN graph.AllNodes = {modFile.Path, "moduleA", "moduleB", "moduleC"}
    /\ Cardinality(DOMAIN graph.AllNodes) = 4
    /\ "moduleC" \notin DOMAIN basicGraph.AllNodes
    /\ NodeNamed(graph, "moduleC").Direct = FALSE
    /\ GetStatistics(graph).total_dependencies = 3
    /\ GetStatistics(graph).direct_dependencies = 1
    /\ GetStatistics(graph).indirect_dependencies = 2
    /\ runs["GetStatistics"] > 0 =>
         /\ stats.total_dependencies = 3
         /\ stats.direct_dependencies = 1
         /\ stats.indirect_dependencies = 2

C6_Witness ==
  /\ Enriched
  /\ EndToEndInput
  /\ runs["GetStatistics"] = 1
  /\ stats.total_dependencies = 3
  /\ stats.direct_dependencies = 1
  /\ stats.indirect_dependencies = 2

\* C7: when the lock file does not exist enrichment succeeds with an empty
\* mapping of lock entries, DetectVersionConflicts yields no conflict, and
\* the nodes are the root and the declared requirements, no more.
C7_MissingLockFile ==
  goSum.status = "missing" =>
    /\ pc # "failed"
    /\ err = NoError
    /\ Enriched =>
         /\ graph.GoSumEntries = EmptyMap
         /\ graph.Conflicts = <<>>
         /\ DOMAIN graph.AllNodes = {modFile.Path} \cup DeclaredPaths(modFile)
         /\ DOMAIN graph.EnhancedNodes = DOMAIN graph.AllNodes
         /\ Len(graph.Nodes) = 1 + Len(modFile.Require)

C7_Witness ==
  /\ goSum.status = "missing"
  /\ Enriched
  /\ runs["DetectVersionConflicts"] = 1
  /\ graph.Conflicts = <<>>
  /\ Cardinality(DOMAIN graph.AllNodes) = 3

LicenseName(g, name) == g.EnhancedNodes[name].License

\* C8: the second AnalyzeLicenses on a graph doubles every count that
\* LicensesSummary held after the first, under the same keys, and leaves
\* every node's license string as the first run set it.
C8_SecondRunDoubles ==
  [][(runs["AnalyzeLicenses"] = 1 /\ runs'["AnalyzeLicenses"] = 2) =>
       /\ DOMAIN graph'.LicensesSummary = DOMAIN graph.LicensesSummary
       /\ \A license \in DOMAIN graph.LicensesSummary :
            graph'.LicensesSummary[license] = 2 * graph.LicensesSummary[license]
       /\ DOMAIN graph'.EnhancedNodes = DOMAIN graph.EnhancedNodes
       /\ \A name \in DOMAIN graph.EnhancedNodes :
            /\ LicenseName(graph, name) # ""
            /\ LicenseName(graph', name) = LicenseName(graph, name)]_vars

C8_Witness ==
  /\ Enriched
  /\ runs["AnalyzeLicenses"] = 2
  /\ DOMAIN graph.LicensesSummary = {"Unknown", "Apache-2.0", "BSD-3-Clause", "MIT"}
  /\ graph.LicensesSummary["Unknown"] = 4
  /\ graph.LicensesSummary["MIT"] = 2

EnrichmentReturned == pc # "BuildEnhancedDependencyGraph"

\* C9: only a lock file that does not exist yields the empty mapping without
\* error; a lock file that exists and cannot be opened or read makes
\* ParseGoSum fail, and BuildEnhancedDependencyGraph returns the error and no graph.
C9_UnreadableIsFatal ==
  EnrichmentReturned =>
    IF goSum.status \in {"unopenable", "readerror"}
    THEN pc = "failed" /\ err # NoError /\ graph = NilGraph
    ELSE pc # "failed" /\ err = NoError /\ graph # NilGraph

RunFails == goMod.status # "ok" \/ ParseGoSum(goSum).err # NoError

\* C10: in every subcommand, when the manifest is absent, cannot be parsed,
\* or enrichment returns an error, the run ends with an error before any
\* analysis pass has run and before any report is produced.
C10_NoPartialSuccess ==
  RunFails =>
    /\ \A pass \in Passes : runs[pass] = 0
    /\ output = "none"
    /\ graph = NilGraph
    /\ pc \in {"stat", "ParseGoMod", "BuildEnhancedDependencyGraph", "failed"}
    /\ goMod.status = "absent" => pc \in {"stat", "failed"}
    /\ goMod.status # "ok" => pc # "BuildEnhancedDependencyGraph"
    /\ pc = "failed" => err # NoError /\ exitCode = 1

C10_Witness ==
  /\ pc = "failed"
  /\ goMod.status = "ok"
  /\ goSum.status = "readerror"
  /\ err = "failed to build enhanced dependency graph"
  /\ exitCode = 1
  /\ \A pass \in Passes : runs[pass] = 0

\* C11: GetStatistics changes no field of the enriched graph, at any point
\* after enrichment, and a second call made with no pass in between returns
\* a map equal to the one the first returned.
C11_StatisticsPureRead ==
  [][runs'["GetStatistics"] = runs["GetStatistics"] + 1 =>
       /\ graph' = graph
       /\ stats' = GetStatistics(graph)
       /\ GetStatistics(graph') = stats']_vars

C11_Witness ==
  /\ Enriched
  /\ runs["AnalyzeLicenses"] = 1
  /\ runs["GetStatistics"] = 2
  /\ stats = GetStatistics(graph)
  /\ stats.unique_licenses > 0
  /\ stats.total_dependencies = 3

StatisticsKeys ==
  {"total_dependencies", "direct_dependencies", "indirect_dependencies",
   "transitive_dependencies", "version_conflicts", "security_issues",
   "unique_licenses", "licenses_breakdown"}

DirectNames(g) == {name \in DOMAIN g.AllNodes \ {g.ModuleName} : NodeNamed(g, name).Direct}

\* C12: the map GetStatistics returns has exactly the eight keys;
\* total_dependencies is |AllNodes| - 1, transitive_dependencies is
\* |lock entries| - direct - indirect and is not clamped (negative for a
\* missing lock file with at least one requirement), and version_conflicts,
\* security_issues and unique_licenses are the lengths of Conflicts,
\* SecurityIssues and LicensesSummary.
C12_StatisticsContent ==
  [][runs'["GetStatistics"] = runs["GetStatistics"] + 1 =>
       /\ DOMAIN stats' = StatisticsKeys
       /\ stats'.total_dependencies = Cardinality(DOMAIN graph.AllNodes) - 1
       /\ stats'.direct_dependencies = Cardinality(DirectNames(graph))
       /\ stats'.direct_dependencies + stats'.indirect_dependencies
            = stats'.total_dependencies
       /\ stats'.transitive_dependencies
            = Cardinality(DOMAIN graph.GoSumEntries)
                - stats'.direct_dependencies - stats'.indirect_dependencies
       /\ (goSum.status = "missing" /\ Len(modFile.Require) >= 1) =>
            stats'.transitive_dependencies < 0
       /\ stats'.version_conflicts = Len(graph.Conflicts)
       /\ stats'.security_issues = Len(graph.SecurityIssues)
       /\ stats'.unique_licenses = Cardinality(DOMAIN graph.LicensesSummary)
       /\ stats'.licenses_breakdown = graph.LicensesSummary]_vars

C12_Witness ==
  /\ Enriched
  /\ runs["GetStatistics"] = 1
  /\ runs["DetectVersionConflicts"] = 0
  /\ goSum.status = "missing"
  /\ Len(modFile.Require) = 2
  /\ stats.total_dependencies = 2
  /\ stats.transitive_dependencies = -2

\* C13: every presentation adapter reads the graph read-only: after the
\* report of generate or analyze has been produced, AllNodes, EnhancedNodes,
\* every node's fields and the content and order of root.Children are as
\* they were before it.
C13_AdaptersReadOnly ==
  [][(pc = "report" /\ cmd \in {"generate", "analyze"}) =>
       /\ graph'.AllNodes = graph.AllNodes
       /\ graph'.EnhancedNodes = graph.EnhancedNodes
       /\ graph'.Nodes = graph.Nodes
       /\ RootChildren(graph') = RootChildren(graph)]_vars

Terminated == exitCode # -1

HighSeverityFound ==
  /\ graph # NilGraph
  /\ \E i \in 1..Len(graph.SecurityIssues) :
       graph.SecurityIssues[i].Severity \in {"CRITICAL", "HIGH"}

\* C14: the security subcommand ends with exit code 1 exactly when loading
\* or enrichment failed or the graph-level SecurityIssues, after
\* CheckSecurity, hold an issue of severity CRITICAL or HIGH; with MEDIUM
\* and LOW issues only, or with none, it ends with exit code 0.
C14_SecurityExitCode ==
  (cmd = "security" /\ Terminated) =>
    /\ exitCode \in {0, 1}
    /\ err # NoError <=> RunFails
    /\ ~RunFails => runs["CheckSecurity"] = 1 /\ output = "stdout"
    /\ exitCode = 1 <=> (RunFails \/ HighSeverityFound)

C14_Witness ==
  /\ cmd = "security"
  /\ pc = "done"
  /\ err = NoError
  /\ exitCode = 1
  /\ \E i \in 1..Len(graph.SecurityIssues) : graph.SecurityIssues[i].Severity = "HIGH"
  /\ \E i \in 1..Len(graph.SecurityIssues) : graph.SecurityIssues[i].Severity = "LOW"

\* the report of doctor shows a critical health issue whatever the day it runs
HealthCritical ==
  /\ graph # NilGraph
  /\ \A days \in DaysSinceUpdate(graph) :
       \/ HealthCounts(graph, days).stale > 0
       \/ HealthBand(HealthCounts(graph, days)) = "Needs Attention"

\* C15: the doctor subcommand ends with a non-zero exit status when its
\* report holds a critical health issue (a stale package, or a health score
\* in the band Needs Attention).
C15_DoctorExitCode ==
  (cmd = "doctor" /\ pc = "done" /\ HealthCritical) => exitCode \notin {-1, 0}

\* C16: for doctor, licenses and security the flags --format and --output
\* take effect: with --format json or yaml and --output F the report is
\* written to the file F, as for analyze and generate, and not printed as
\* the text report on standard output.
C16_FlagsTakeEffect ==
  (/\ cmd \in {"doctor", "licenses", "security"}
   /\ pc = "done"
   /\ format \in {"json", "yaml"}
   /\ outputFile # "") => output = "file"

\* every key of AllNodes is the name of the node stored under it, and no
\* node is stored under two keys
UniqueNames(g) ==
  /\ \A name \in DOMAIN g.AllNodes : NodeNamed(g, name).Name = name
  /\ \A a, b \in DOMAIN g.AllNodes : g.AllNodes[a] = g.AllNodes[b] => a = b

\* the entry of AllNodes under the module's own path is the root node
RootEntry(g) ==
  /\ modFile.Path \in DOMAIN g.AllNodes
  /\ g.AllNodes[modFile.Path] = g.Root
  /\ NodeNamed(g, modFile.Path).Version = "main"
  /\ NodeNamed(g, modFile.Path).Direct = TRUE

\* C17: after base-graph construction and after enrichment, for every
\* manifest and every set of lock entries, node names are unique within
\* AllNodes and the entry of AllNodes under the module's own path is the
\* root node, with version "main" and direct=true.
C17_RootEntryIsRoot ==
  /\ BaseBuilt => UniqueNames(basicGraph) /\ RootEntry(basicGraph)
  /\ Enriched => UniqueNames(graph) /\ RootEntry(graph)

\* C18: after enrichment the names of AllNodes are the module path, the
\* paths declared in the manifest and the module paths of the lock entries,
\* no more and no fewer, and every non-root node of AllNodes has an
\* EnhancedNode under the same name that wraps that same node.
C18_NodeSetIsUnion ==
  Enriched =>
    /\ DOMAIN graph.AllNodes
         = {modFile.Path} \cup DeclaredPaths(modFile) \cup LockPaths(graph)
    /\ \A name \in DOMAIN graph.AllNodes \ {modFile.Path} :
         /\ name \in DOMAIN graph.EnhancedNodes
         /\ graph.EnhancedNodes[name].Node = graph.AllNodes[name]
    /\ DOMAIN graph.EnhancedNodes = DOMAIN graph.AllNodes

C18_Witness ==
  /\ Enriched
  /\ TotalRuns = MaxPassRuns
  /\ DeclaredPaths(modFile) = {"moduleA", "moduleB"}
  /\ LockPaths(graph) = {"moduleB", "moduleC"}
  /\ DOMAIN graph.AllNodes = {modFile.Path, "moduleA", "moduleB", "moduleC"}
  /\ graph.EnhancedNodes["moduleC"].Node = graph.AllNodes["moduleC"]

NodeConflicts(g, name) == g.EnhancedNodes[name].Conflicts

NodeConflictCounts(g) == [name \in DOMAIN g.EnhancedNodes |-> Len(NodeConflicts(g, name))]

\* C19: after one run of DetectVersionConflicts every conflict of the
\* graph-level list is in the list of the EnhancedNode that its modulePath
\* names and in no other node's list, the node-level counts add up to the
\* graph-level count, and that count is the number of lock entries minus the
\* number of distinct module paths in them.
C19_ConflictsOnBothLists ==
  (Enriched /\ runs["DetectVersionConflicts"] = 1) =>
    /\ \A i \in 1..Len(graph.Conflicts) :
         LET conflict == graph.Conflicts[i]
         IN /\ conflict.ModulePath \in DOMAIN graph.EnhancedNodes
            /\ conflict \in Range(NodeConflicts(graph, conflict.ModulePath))
            /\ \A name \in DOMAIN graph.EnhancedNodes \ {conflict.ModulePath} :
                 conflict \notin Range(NodeConflicts(graph, name))
    /\ \A name \in DOMAIN graph.EnhancedNodes :
         Range(NodeConflicts(graph, name)) \subseteq Range(graph.Conflicts)
    /\ SumOf(NodeConflictCounts(graph)) = Len(graph.Conflicts)
    /\ Len(graph.Conflicts)
         = Cardinality(DOMAIN graph.GoSumEntries) - Cardinality(LockPaths(graph))

C19_Witness ==
  /\ Enriched
  /\ runs["DetectVersionConflicts"] = 1
  /\ Cardinality(DOMAIN graph.GoSumEntries) = 3
  /\ LockPaths(graph) = {"moduleA", "moduleC"}
  /\ Len(graph.Conflicts) = 1
  /\ Len(NodeConflicts(graph, "moduleC")) = 1
  /\ Len(NodeConflicts(graph, "moduleA")) = 0

Severities == {"CRITICAL", "HIGH", "MEDIUM", "LOW"}

NodeIssueCounts(g, id) ==
  [name \in DOMAIN g.EnhancedNodes |->
     IF id = "" THEN Len(IssuesOf(g, name)) ELSE IssueCount(IssuesOf(g, name), id)]

IssueIDs(g) ==
  {g.SecurityIssues[i].ID : i \in 1..Len(g.SecurityIssues)}
    \cup UNION {{IssuesOf(g, name)[i].ID : i \in 1..Len(IssuesOf(g, name))} :
                  name \in DOMAIN g.EnhancedNodes}

\* C20: after any number of CheckSecurity runs the root node holds no
\* issue, the graph-level SecurityIssues list holds as many issues as the
\* nodes' lists together, rule by rule, and every severity is one of
\* CRITICAL, HIGH, MEDIUM, LOW.
C20_IssuesOnBothLists ==
  Enriched =>
    /\ IssuesOf(graph, modFile.Path) = <<>>
    /\ SumOf(NodeIssueCounts(graph, "")) = Len(graph.SecurityIssues)
    /\ \A id \in IssueIDs(graph) :
         SumOf(NodeIssueCounts(graph, id)) = IssueCount(graph.SecurityIssues, id)
    /\ \A i \in 1..Len(graph.SecurityIssues) :
         graph.SecurityIssues[i].Severity \in Severities
    /\ \A name \in DOMAIN graph.EnhancedNodes :
         \A i \in 1..Len(IssuesOf(graph, name)) :
            IssuesOf(graph, name)[i].Severity \in Severities

C20_Witness ==
  /\ Enriched
  /\ runs["CheckSecurity"] = 2
  /\ NodeIssues(modFile.Path, RootVersion) # <<>>
  /\ IssuesOf(graph, modFile.Path) = <<>>
  /\ Len(graph.SecurityIssues) = 6
  /\ Len(IssuesOf(graph, "moduleC")) = 2

IssueIDsOf(g, name) == {IssuesOf(g, name)[i].ID : i \in 1..Len(IssuesOf(g, name))}

KnownIDs == {vulnerablePatterns[name].ID : name \in DOMAIN vulnerablePatterns}

\* the versions on which the missing-version rule fires
NoVersions == {"", "v0.0.0"}

FiresAll(name, version) ==
  /\ IsKnownVulnerable(name, version)
  /\ IsDevVersion(version)
  /\ IsOldVersion(version)
  /\ InsecureFrom(name, 1) # <<>>
  /\ IsNoVersion(version)

\* C21 as stated: some name and version make one pass append all five kinds
\* of issue.  The known-vulnerable rule fires on the names of its table only
\* and the missing-version rule on the versions "" and "v0.0.0" only, so
\* such a pair, if there is one, is among these names and versions, or is a
\* node of the graph that holds the five kinds after one pass.
C21_Original ==
  (Enriched /\ runs["CheckSecurity"] = 1) =>
    \/ \E name \in DOMAIN vulnerablePatterns, version \in NoVersions :
         FiresAll(name, version)
    \/ \E name \in NonRootNames(graph) :
         /\ IssueIDsOf(graph, name) \cap KnownIDs # {}
         /\ {"DEV-VERSION", "OLD-VERSION", "INSECURE-CRYPTO", "NO-VERSION"}
              \subseteq IssueIDsOf(graph, name)

\* C21 amended: the rules are tested independently and their issues
\* accumulate, but not all five can fire on one node: the missing-version
\* rule fires on the versions "" and "v0.0.0" only, on which the
\* known-vulnerable, pre-release and old-version rules do not fire, and the
\* known-vulnerable rule fires on two names only, which hold no
\* insecure-primitive pattern.  The sets that fire together are
\* known-vulnerable with DEV-VERSION and OLD-VERSION, DEV-VERSION and
\* OLD-VERSION with INSECURE-CRYPTO, and INSECURE-CRYPTO with NO-VERSION.
C21_RulesThatCoFire ==
  /\ \A version \in NoVersions :
       /\ IsNoVersion(version)
       /\ ~IsDevVersion(version)
       /\ ~IsOldVersion(version)
       /\ \A name \in DOMAIN vulnerablePatterns : ~IsKnownVulnerable(name, version)
  /\ \A name \in DOMAIN vulnerablePatterns : InsecureFrom(name, 1) = <<>>
  /\ Enriched =>
       \A name \in NonRootNames(graph) :
          LET ids == IssueIDsOf(graph, name)
          IN /\ "NO-VERSION" \in ids =>
                  /\ VersionOf(graph, name) \in NoVersions
                  /\ ids \subseteq {"NO-VERSION", "INSECURE-CRYPTO"}
             /\ ids \cap KnownIDs # {} =>
                  /\ name \in DOMAIN vulnerablePatterns
                  /\ "INSECURE-CRYPTO" \notin ids

C21_Witness ==
  /\ Enriched
  /\ runs["CheckSecurity"] = 1
  /\ "github.com/gin-gonic/gin" \in NonRootNames(graph)
  /\ IssueIDsOf(graph, "github.com/gin-gonic/gin")
       = {"GHSA-example", "DEV-VERSION", "OLD-VERSION"}
  /\ \E name \in NonRootNames(graph) :
       /\ VersionOf(graph, name) = "v0.0.0"
       /\ IssueIDsOf(graph, name) = {"INSECURE-CRYPTO", "NO-VERSION"}

HasPrefix(s, prefix) == Len(s) >= Len(prefix) /\ SubSeq(s, 1, Len(prefix)) = prefix

\* the license of a name by the table first, then by the prefix of its path
LicenseByPrefix(name) ==
  IF name \in DOMAIN knownLicenses THEN knownLicenses[name]
  ELSE IF HasPrefix(name, "golang.org/x/") THEN "BSD-3-Clause"
  ELSE IF HasPrefix(name, "github.com/mattn/") THEN "MIT"
  ELSE "Unknown"

\* C22: AnalyzeLicenses classifies by table first, then by prefix: a name of
\* the table gets the table's license, any other name gets BSD-3-Clause only
\* if its path begins with "golang.org/x/", MIT only if it begins with
\* "github.com/mattn/", and "Unknown" in every other case.
C22_TableThenPrefix ==
  (Enriched /\ runs["AnalyzeLicenses"] >= 1) =>
    \A name \in DOMAIN graph.EnhancedNodes :
       LicenseName(graph, name) = LicenseByPrefix(name)

HashOf(g, name) == g.EnhancedNodes[name].Hash

WrappedNode(g, name) == g.Nodes[g.EnhancedNodes[name].Node]

\* C23: after enrichment every enhanced node whose name@version is a key of
\* the lock entries holds that entry's hash and every other enhanced node
\* holds the empty hash; a synthesized lock-only node carries the version
\* and the hash of one and the same lock entry.
C23_HashFromExactEntry ==
  Enriched =>
    /\ \A name \in DOMAIN graph.EnhancedNodes :
         LET key == GoSumKey(WrappedNode(graph, name).Name, WrappedNode(graph, name).Version)
         IN IF key \in DOMAIN graph.GoSumEntries
            THEN HashOf(graph, name) = graph.GoSumEntries[key].Hash
            ELSE HashOf(graph, name) = ""
    /\ \A p \in LockOnlyPaths(graph) :
         \E k \in DOMAIN graph.GoSumEntries :
            /\ graph.GoSumEntries[k].ModulePath = p
            /\ graph.GoSumEntries[k].Version = WrappedNode(graph, p).Version
            /\ graph.GoSumEntries[k].Hash = HashOf(graph, p)
            /\ HashOf(graph, p) # ""

C23_Witness ==
  /\ Enriched
  /\ DOMAIN graph.GoSumEntries = {"moduleA@v1.2.0", "moduleB@v0.3.0", "moduleC@v1.0.0"}
  /\ DeclaredPaths(modFile) = {"moduleA", "moduleB"}
  /\ WrappedNode(graph, "moduleA").Version = "v1.0.0"
  /\ HashOf(graph, "moduleA") = ""
  /\ HashOf(graph, "moduleB") = "h1:b03"
  /\ HashOf(graph, "moduleC") = "h1:c10"
  /\ HashOf(graph, modFile.Path) = ""

\* the version, direct flag and hash of every node of an enriched graph
NodeFacts(g) ==
  [name \in DOMAIN g.EnhancedNodes |->
     [Version |-> WrappedNode(g, name).Version,
      Direct |-> WrappedNode(g, name).Direct,
      Hash |-> HashOf(g, name)]]

\* C24: enrichment is deterministic: every run of
\* BuildEnhancedDependencyGraph over the manifest and the lock entries of the
\* graph at hand yields that graph's node set, with the same version, direct
\* flag and hash for every node, a lock-only module of several versions included.
C24_EnrichmentDeterministic ==
  Enriched =>
    \A order \in Orders(DOMAIN graph.GoSumEntries) :
       NodeFacts(BuildEnhancedDependencyGraph(modFile, goSum, order).graph)
         = NodeFacts(graph)

\* the step is a call of this pass
PassStep(pass) == runs'[pass] = runs[pass] + 1

\* the graph's nodes, both maps' keys, every wrapper's node and hash, and the
\* lock entries are as before the step
BaseUnchanged ==
  /\ graph'.Nodes = graph.Nodes
  /\ graph'.Root = graph.Root
  /\ graph'.AllNodes = graph.AllNodes
  /\ graph'.ModuleName = graph.ModuleName
  /\ graph'.GoSumEntries = graph.GoSumEntries
  /\ DOMAIN graph'.EnhancedNodes = DOMAIN graph.EnhancedNodes
  /\ \A name \in DOMAIN graph.EnhancedNodes :
       /\ graph'.EnhancedNodes[name].Node = graph.EnhancedNodes[name].Node
       /\ HashOf(graph', name) = HashOf(graph, name)
       /\ graph'.EnhancedNodes[name].LastUpdate = graph.EnhancedNodes[name].LastUpdate
       /\ graph'.EnhancedNodes[name].IsOutdated = graph.EnhancedNodes[name].IsOutdated
       /\ graph'.EnhancedNodes[name].UpdateAvailable
            = graph.EnhancedNodes[name].UpdateAvailable

ConflictsUnchanged ==
  /\ graph'.Conflicts = graph.Conflicts
  /\ \A name \in DOMAIN graph.EnhancedNodes :
       NodeConflicts(graph', name) = NodeConflicts(graph, name)

LicensesUnchanged ==
  /\ graph'.LicensesSummary = graph.LicensesSummary
  /\ \A name \in DOMAIN graph.EnhancedNodes :
       LicenseName(graph', name) = LicenseName(graph, name)

IssuesUnchanged ==
  /\ graph'.SecurityIssues = graph.SecurityIssues
  /\ \A name \in DOMAIN graph.EnhancedNodes : IssuesOf(graph', name) = IssuesOf(graph, name)

\* C25: DetectVersionConflicts, AnalyzeLicenses and CheckSecurity never add
\* or remove a node of AllNodes or EnhancedNodes, never change a node's name,
\* version, direct flag, children or hash, nor the lock entries, and each
\* writes its own annotation only: conflicts, license and LicensesSummary,
\* security issues.
C25_PassesKeepBase ==
  [][/\ PassStep("DetectVersionConflicts") =>
          BaseUnchanged /\ LicensesUnchanged /\ IssuesUnchanged
     /\ PassStep("AnalyzeLicenses") =>
          BaseUnchanged /\ ConflictsUnchanged /\ IssuesUnchanged
     /\ PassStep("CheckSecurity") =>
          BaseUnchanged /\ ConflictsUnchanged /\ LicensesUnchanged]_vars

C25_Witness ==
  /\ Enriched
  /\ runs["DetectVersionConflicts"] = 1
  /\ runs["AnalyzeLicenses"] = 1
  /\ runs["CheckSecurity"] = 1
  /\ Len(graph.Conflicts) = 1
  /\ "github.com/gorilla/websocket" \in DOMAIN graph.EnhancedNodes
  /\ Len(NodeConflicts(graph, "github.com/gorilla/websocket")) = 1
  /\ WrappedNode(graph, "github.com/gorilla/websocket").Version = "v1.4.2"
  /\ Len(graph.SecurityIssues) = 3
  /\ DOMAIN graph.LicensesSummary = {"Unknown", "BSD-3-Clause"}
  /\ \A order \in Orders(DOMAIN graph.GoSumEntries) :
       graph.Nodes = BuildEnhancedDependencyGraph(modFile, goSum, order).graph.Nodes

\* the passes the subcommand calls
PassesOf(c) == Range(Pipeline(c)) \ {"report"}

EnrichmentSucceeded == graph # NilGraph /\ err = NoError /\ ~RunFails

\* the adapter of the subcommand has run, or is the next call
AtReport == pc = "report" \/ output # "none"

\* C26: in every subcommand each pass is called at most once, and only
\* after enrichment has succeeded; the report is produced only after every
\* pass of the subcommand has run; generate and analyze call
\* DetectVersionConflicts, then AnalyzeLicenses, then CheckSecurity, then
\* produce their output.
C26_PassesOnceInOrder ==
  /\ \A pass \in Passes :
       /\ runs[pass] <= 1
       /\ runs[pass] = 1 => pass \in PassesOf(cmd) /\ graph # NilGraph /\ ~RunFails
  /\ AtReport => EnrichmentSucceeded /\ \A pass \in PassesOf(cmd) : runs[pass] = 1
  /\ output # "none" => pc = "done"
  /\ cmd \in {"generate", "analyze"} =>
       /\ runs["AnalyzeLicenses"] <= runs["DetectVersionConflicts"]
       /\ runs["CheckSecurity"] <= runs["AnalyzeLicenses"]
       /\ pc = "AnalyzeLicenses" => runs["DetectVersionConflicts"] = 1
       /\ pc = "CheckSecurity" => runs["AnalyzeLicenses"] = 1

C26_Witness ==
  /\ cmd = "generate"
  /\ pc = "done"
  /\ output = "file"
  /\ runs["DetectVersionConflicts"] = 1
  /\ runs["AnalyzeLicenses"] = 1
  /\ runs["CheckSecurity"] = 1
  /\ runs["analyzePackageHealth"] = 0
  /\ Len(graph.Conflicts) = 1
  /\ Len(graph.SecurityIssues) = 2
  /\ graph.LicensesSummary # EmptyMap

\* the path and version of every node of root.Children, in order
ChildFacts(g) ==
  [i \in 1..Len(RootChildren(g)) |->
     [Path |-> g.Nodes[RootChildren(g)[i]].Name,
      Version |-> g.Nodes[RootChildren(g)[i]].Version]]

\* the path and version of the manifest's direct requirements, in manifest order
DirectDeclared(m) ==
  LET direct == SelectSeq(m.Require, LAMBDA r : ~r.Indirect)
  IN [i \in 1..Len(direct) |-> [Path |-> direct[i].Path, Version |-> direct[i].Version]]

\* the last requirement of the manifest that declares the path
LastRequire(m, path) ==
  LET declared == {i \in 1..Len(m.Require) : m.Require[i].Path = path}
  IN m.Require[CHOOSE i \in declared : \A j \in declared : j <= i]

\* root.Children is the manifest's direct requirements, one level deep
ChildrenAsDeclared(g) ==
  /\ ChildFacts(g) = DirectDeclared(modFile)
  /\ \A i \in 1..Len(RootChildren(g)) :
       /\ g.Nodes[RootChildren(g)[i]].Direct
       /\ g.Nodes[RootChildren(g)[i]].Children = <<>>
  /\ \A i \in 1..Len(g.Nodes) : i # g.Root => g.Nodes[i].Children = <<>>

\* every child is the node that AllNodes holds under the child's name
ChildrenStored(g) ==
  \A i \in 1..Len(RootChildren(g)) :
     g.AllNodes[g.Nodes[RootChildren(g)[i]].Name] = RootChildren(g)[i]

\* under the name of every child AllNodes holds the node of the last
\* declaration of that path
LastDeclarationStored(g) ==
  \A i \in 1..Len(RootChildren(g)) :
     LET name == g.Nodes[RootChildren(g)[i]].Name
     IN /\ NodeNamed(g, name).Version = LastRequire(modFile, name).Version
        /\ NodeNamed(g, name).Direct = ~LastRequire(modFile, name).Indirect

\* enrichment leaves root.Children alone, and its synthesized nodes are
\* not direct and are in no Children list
EnrichmentKeepsChildren ==
  /\ RootChildren(graph) = RootChildren(basicGraph)
  /\ \A p \in LockOnlyPaths(graph) :
       /\ ~NodeNamed(graph, p).Direct
       /\ \A i \in 1..Len(graph.Nodes) : graph.AllNodes[p] \notin Range(graph.Nodes[i].Children)

\* C27 as stated: root.Children holds the manifest's direct requirements in
\* manifest order, one level deep, and every child is the node stored in
\* AllNodes under its name; enrichment adds nothing to root.Children and a
\* synthesized node has direct=false and is in no Children list.
C27_Original ==
  /\ BaseBuilt => ChildrenAsDeclared(basicGraph) /\ ChildrenStored(basicGraph)
  /\ Enriched =>
       ChildrenAsDeclared(graph) /\ ChildrenStored(graph) /\ EnrichmentKeepsChildren

\* C27 amended: as stated, but a child is the node stored in AllNodes under
\* its name when no path is declared twice and none is the module's own
\* path; in general AllNodes holds under the child's name the node of the
\* last declaration of that path, which may be another node, of another
\* version and not direct.
C27_ChildrenAreDirectRequirements ==
  /\ BaseBuilt =>
       /\ ChildrenAsDeclared(basicGraph)
       /\ LastDeclarationStored(basicGraph)
       /\ DistinctPaths(modFile) => ChildrenStored(basicGraph)
  /\ Enriched =>
       /\ ChildrenAsDeclared(graph)
       /\ LastDeclarationStored(graph)
       /\ DistinctPaths(modFile) => ChildrenStored(graph)
       /\ EnrichmentKeepsChildren

C27_Witness ==
  /\ Enriched
  /\ DistinctPaths(modFile)
  /\ ChildFacts(graph) = <<[Path |-> "moduleB", Version |-> "v0.3.0"],
                           [Path |-> "moduleA", Version |-> "v1.2.0"]>>
  /\ ChildrenStored(graph)
  /\ "moduleC" \in LockOnlyPaths(graph)
  /\ Cardinality(VersionMap(graph.GoSumEntries)["moduleC"]) = 2
  /\ ~NodeNamed(graph, "moduleC").Direct

AnalysisPasses == {"DetectVersionConflicts", "AnalyzeLicenses", "CheckSecurity"}

\* the graphs one call of the pass can leave, from any graph of G
RunPass(G, pass) ==
  IF pass = "DetectVersionConflicts"
  THEN UNION {{DetectVersionConflicts(g, order) : order \in Orders(ConflictingPaths(g))} :
                g \in G}
  ELSE IF pass = "AnalyzeLicenses" THEN {AnalyzeLicenses(g) : g \in G}
  ELSE UNION {{CheckSecurity(g, order) : order \in Orders(FlaggedNames(g))} : g \in G}

\* the graphs that the three passes, called once each in this order, can leave
RunPasses(g, passes) == RunPass(RunPass(RunPass({g}, passes[1]), passes[2]), passes[3])

\* a list as a multiset: how often each element occurs
BagOf(list) == [x \in Range(list) |-> Cardinality({i \in 1..Len(list) : list[i] = x})]

\* the annotations of a graph, lists taken as multisets, and its statistics
Annotations(g) ==
  [licenses |-> [name \in DOMAIN g.EnhancedNodes |-> LicenseName(g, name)],
   nodeConflicts |-> [name \in DOMAIN g.EnhancedNodes |-> BagOf(NodeConflicts(g, name))],
   nodeIssues |-> [name \in DOMAIN g.EnhancedNodes |-> BagOf(IssuesOf(g, name))],
   conflicts |-> BagOf(g.Conflicts),
   issues |-> BagOf(g.SecurityIssues),
   summary |-> g.LicensesSummary,
   statistics |-> GetStatistics(g)]

\* the graph before any pass has run on it
Unannotated(g) ==
  [g EXCEPT !.Conflicts = <<>>, !.SecurityIssues = <<>>, !.LicensesSummary = EmptyMap,
            !.EnhancedNodes = [name \in DOMAIN @ |->
                                 [@[name] EXCEPT !.Conflicts = <<>>,
                                                 !.SecurityIssues = <<>>,
                                                 !.License = ""]]]

OncePerPass == \A pass \in AnalysisPasses : runs[pass] = 1

\* C28: the three passes commute: called once each on the same enriched
\* graph, in any of the six orders, they leave the same licenses, the same
\* multisets of conflicts and of security issues on every node and on the
\* graph, the same LicensesSummary and the same statistics.
C28_PassesCommute ==
  /\ (Enriched /\ TotalRuns = 0) =>
       \A first, second \in Orders(AnalysisPasses) :
          \A a \in RunPasses(graph, first), b \in RunPasses(graph, second) :
             Annotations(a) = Annotations(b)
  /\ (Enriched /\ OncePerPass) =>
       \A order \in Orders(AnalysisPasses) :
          \A g \in RunPasses(Unannotated(graph), order) :
             Annotations(graph) = Annotations(g)

C28_Witness ==
  /\ Enriched
  /\ OncePerPass
  /\ Len(graph.Conflicts) = 1
  /\ Cardinality(DOMAIN BagOf(graph.SecurityIssues)) = 3
  /\ graph.LicensesSummary = ("BSD-3-Clause" :> 1) @@ ("Unknown" :> 3)
  /\ Cardinality({g.SecurityIssues : g \in RunPasses(Unannotated(graph),
                     <<"CheckSecurity", "DetectVersionConflicts", "AnalyzeLicenses">>)}) > 1

\* the names of AllNodes, the root's aside, whose node is not direct
IndirectNames(g) ==
  {name \in DOMAIN g.AllNodes \ {g.ModuleName} : ~NodeNamed(g, name).Direct}

\* C29 as stated: after enrichment total_dependencies is
\* direct_dependencies + indirect_dependencies, direct_dependencies is the
\* length of root.Children, and every synthesized lock-only node is counted
\* in indirect_dependencies.
C29_Original ==
  Enriched =>
    LET counted == GetStatistics(graph)
    IN /\ counted.total_dependencies
            = counted.direct_dependencies + counted.indirect_dependencies
       /\ counted.direct_dependencies = Len(RootChildren(graph))
       /\ LockOnlyPaths(graph) \subseteq IndirectNames(graph)
       /\ counted.indirect_dependencies = Cardinality(IndirectNames(graph))

\* C29 amended: after enrichment total_dependencies is direct_dependencies
\* + indirect_dependencies and every synthesized lock-only node is counted
\* in indirect_dependencies; direct_dependencies is the number of names of
\* AllNodes, the root's aside, whose node is direct, which is at most the
\* length of root.Children and equal to it when no path is declared twice
\* and none is the module's own path.
C29_CountsAddUp ==
  Enriched =>
    LET counted == GetStatistics(graph)
    IN /\ counted.total_dependencies
            = counted.direct_dependencies + counted.indirect_dependencies
       /\ counted.direct_dependencies = Cardinality(DirectNames(graph))
       /\ counted.direct_dependencies <= Len(RootChildren(graph))
       /\ DistinctPaths(modFile) =>
            /\ counted.direct_dependencies = Len(RootChildren(graph))
            /\ counted.indirect_dependencies
                 = IndirectCount(modFile) + Cardinality(LockOnlyPaths(graph))
       /\ LockOnlyPaths(graph) \subseteq IndirectNames(graph)
       /\ counted.indirect_dependencies = Cardinality(IndirectNames(graph))
       /\ runs["GetStatistics"] > 0 =>
            /\ stats.total_dependencies = counted.total_dependencies
            /\ stats.direct_dependencies = counted.direct_dependencies
            /\ stats.indirect_dependencies = counted.indirect_dependencies

C29_Witness ==
  /\ Enriched
  /\ runs["GetStatistics"] = 1
  /\ DistinctPaths(modFile)
  /\ Len(RootChildren(graph)) = 2
  /\ LockOnlyPaths(graph) = {"moduleC"}
  /\ stats.direct_dependencies = 2
  /\ stats.indirect_dependencies = 1
  /\ stats.total_dependencies = 3

NodesNamed(g, name) == {i \in 1..Len(g.Nodes) : g.Nodes[i].Name = name}

\* C30: for every module declared in the manifest, direct or indirect, the
\* enriched graph holds the node the base graph held, with the version and
\* the direct flag of its declaration, whatever versions of it the lock
\* entries hold, and no second node of that name; the lock entries give it
\* its hash, on an exact name@version match, and its conflicts, nothing else.
C30_ManifestWins ==
  Enriched =>
    \A p \in DeclaredPaths(modFile) :
       /\ graph.AllNodes[p] = basicGraph.AllNodes[p]
       /\ graph.EnhancedNodes[p].Node = basicGraph.AllNodes[p]
       /\ NodeNamed(graph, p) = NodeNamed(basicGraph, p)
       /\ NodeNamed(graph, p).Version = LastRequire(modFile, p).Version
       /\ NodeNamed(graph, p).Direct = ~LastRequire(modFile, p).Indirect
       /\ NodesNamed(graph, p) = NodesNamed(basicGraph, p)
       /\ HashOf(graph, p) # "" =>
            /\ GoSumKey(p, NodeNamed(graph, p).Version) \in DOMAIN graph.GoSumEntries
            /\ HashOf(graph, p)
                 = graph.GoSumEntries[GoSumKey(p, NodeNamed(graph, p).Version)].Hash
       /\ \A i \in 1..Len(NodeConflicts(graph, p)) :
            NodeConflicts(graph, p)[i].ModulePath = p

C30_Witness ==
  /\ Enriched
  /\ Len(modFile.Require) = 1
  /\ modFile.Require[1] = Req("moduleA", "v1.0.0", TRUE)
  /\ "moduleA@v1.2.0" \in DOMAIN graph.GoSumEntries
  /\ NodeNamed(graph, "moduleA").Version = "v1.0.0"
  /\ ~NodeNamed(graph, "moduleA").Direct
  /\ HashOf(graph, "moduleA") = ""
  /\ Cardinality(NodesNamed(graph, "moduleA")) = 1
  /\ "moduleC" \in DOMAIN graph.AllNodes
====
